---- MODULE Spec2Model ----
(***************************************************************************)
(* The data-access layer of google-classroom-tui: the API client of        *)
(* internal/api/client.go (pagination and executeWithRetry) in front of    *)
(* the remote Classroom service, and the file cache of internal/cache.     *)
(*                                                                         *)
(* Durations are whole seconds.  An error value is a record holding the    *)
(* class the remote meant (its HTTP status) and `text`, the set of the     *)
(* substrings that err.Error() contains among those the client searches    *)
(* for: the client classifies by substring, never by class.                *)
(***************************************************************************)
EXTENDS Integers, Sequences, FiniteSets, TLC

\* ------------------------------------------------------------------ bounds
\* Most pages the remote spreads one collection over.
MaxPages == 3
\* Most records on one page.
MaxPageSize == 2
\* The last instant of the cache's clock.
MaxNow == 2
\* The longest time-to-live a caller stores an entry with.
MaxTTL == 1

\* The calls of GenerateKey one behaviour makes.
MaxKeys == 2

\* The requests the OAuth token endpoint receives in one behaviour.
MaxRequests == 2

\* The callbacks the local listener receives during one Login.
MaxCallbacks == 3

\* The Login calls made in one process.
MaxLogins == 2

\* ------------------------------------------------------- program constants
\* time.Second, the initial value of `backoff` in executeWithRetry.
time_Second == 1

\* A retry loop that makes no attempt.
NoAttempts == 3 - 3

\* The mutant of MaxAttempts: one attempt too many.
MaxAttemptsOffByOne == 3 + 1

\* The literal 3 of `for attempt := 0; attempt < 3; attempt++` and of the
\* "after %d attempts" message.
MaxAttempts == 3

\* Login: time.After(5 * time.Minute), in minutes.
LoginTimeout == 5

\* DefaultConfiguration().MaxRetries
DefaultMaxRetries == 3

\* DefaultConfiguration().RateLimitBackoff, in seconds
DefaultRateLimitBackoff == 1

\* ------------------------------------------------------------------ values
NoToken == ""

NilErr == [class |-> "nil", text |-> {}]

NilResp == [kind |-> "nil"]

\* A nil pointer; a nil slice is the empty sequence.
Nil == [nil |-> TRUE]

\* ctx.Err() of a cancelled context: "context canceled".
CtxErr == [class |-> "Canceled", text |-> {}]

\* fmt.Errorf(msg + ": %w", err): the text of the wrapper contains the text of
\* the error it wraps.
Errorf(msg, err) ==
    [class |-> "Wrapped", msg |-> msg, cause |-> err, text |-> err.text]

\* The errors fn may return.  E404Body is a not-found answer whose text also
\* holds the digits 429 (googleapi puts the answer's message or body in the
\* text: "... courses/4290 was not found").
E429 == [class |-> "RateLimited", text |-> {"429"}]

E403 == [class |-> "Forbidden", text |-> {"403"}]

E404 == [class |-> "NotFound", text |-> {"404"}]

E401 == [class |-> "Unauthorized", text |-> {"401"}]

E404Body == [class |-> "NotFound", text |-> {"404", "429"}]

ENet == [class |-> "Network", text |-> {}]

RemoteErrors == {E429, E403, E404, E401, E404Body, ENet}

\* strings.Contains(err.Error(), sub)
Contains(err, sub) == sub \in err.text

isRateLimitError(err) ==
    /\ err # NilErr
    /\ (Contains(err, "429") \/ Contains(err, "rate limit"))

isAPIError(err) ==
    /\ err # NilErr
    /\ (Contains(err, "403") \/ Contains(err, "404") \/ Contains(err, "401"))

\* The mutant of ReturnSuccess: the error of an earlier attempt is returned
\* along with the response.
ReturnSuccessWithLastErr(resp, last) == [resp |-> resp, err |-> last, set |-> TRUE]

\* if err == nil { return resp, nil }, whatever lastErr holds
ReturnSuccess(resp, last) == [resp |-> resp, err |-> NilErr, set |-> TRUE]

\* The mutant of NextBackoff: the delay grows by a second instead of doubling.
NextBackoffLinear(b) == b + time_Second

\* backoff *= 2
NextBackoff(b) == b * 2

\* ------------------------------------------------------------ configuration
DefaultConfiguration ==
    [RateLimitBackoff |-> DefaultRateLimitBackoff, MaxRetries |-> DefaultMaxRetries]

\* What a caller may hand to NewClient: nil, the defaults spelled out, and
\* other limits.
CallerConfigurations ==
    { Nil,
      [RateLimitBackoff |-> 1, MaxRetries |-> 3],
      [RateLimitBackoff |-> 2, MaxRetries |-> 2] }

\* NewClient: a nil configuration is replaced by the default one.
NewClient(c) == IF c = Nil THEN DefaultConfiguration ELSE c

\* ------------------------------------------------------------- conversions
\* %02d and %04d of fmt.Sprintf, for the numbers a date or a time holds.
Pad2(n) == IF n < 10 THEN "0" \o ToString(n) ELSE ToString(n)

Pad4(n) ==
    IF n < 10 THEN "000" \o ToString(n)
    ELSE IF n < 100 THEN "00" \o ToString(n)
    ELSE IF n < 1000 THEN "0" \o ToString(n)
    ELSE ToString(n)

formatDate(d) ==
    IF d = Nil THEN "" ELSE Pad4(d.Year) \o "-" \o Pad2(d.Month) \o "-" \o Pad2(d.Day)

formatTime(t) ==
    IF t = Nil THEN "" ELSE Pad2(t.Hours) \o ":" \o Pad2(t.Minutes)

\* int(x) of a float64 that is given in tenths: the fraction is cut off.
int(tenths) == tenths \div 10

\* The n-th record the remote serves, of each kind.  A due date, a due time
\* and a profile are pointers: every other record has none.
RemoteCourse(n) ==
    [Id |-> n, Name |-> n + 50, DescriptionHeading |-> n + 100, CreationTime |-> n + 200]

RemoteCourseWork(n) ==
    [Id |-> n, CourseId |-> 1,
     DueDate |-> IF n % 2 = 0 THEN Nil ELSE [Year |-> 2026, Month |-> n, Day |-> 10 + n],
     DueTime |-> IF n % 2 = 0 THEN Nil ELSE [Hours |-> n, Minutes |-> 30],
     MaxPoints |-> 1000 + 5 * n]

RemoteSubmission(n) ==
    [Id |-> n, AssignedGrade |-> 900 + 5 * n, Late |-> n % 2 = 0, CreationTime |-> n + 200]

RemoteAnnouncement(n) == [Id |-> n, Text |-> n + 50, CreationTime |-> n + 200]

RemoteMember(n) ==
    [UserId |-> n, CourseId |-> 1,
     Profile |-> IF n % 2 = 0 THEN Nil
                 ELSE [Id |-> n, Name |-> [FullName |-> n + 50], EmailAddress |-> n + 70,
                       PhotoUrl |-> n + 90]]

convertCourse(c) ==
    [ID |-> c.Id, Name |-> c.Name, Description |-> c.DescriptionHeading,
     TimeCreated |-> c.CreationTime]

convertCourseWork(cw) ==
    [ID |-> cw.Id, CourseID |-> cw.CourseId, DueDate |-> formatDate(cw.DueDate),
     DueTime |-> formatTime(cw.DueTime), MaxPoints |-> int(cw.MaxPoints)]

convertSubmission(sub) ==
    [ID |-> sub.Id, AssignedGrade |-> int(sub.AssignedGrade), Late |-> sub.Late,
     CreateTime |-> sub.CreationTime]

convertAnnouncement(a) == [ID |-> a.Id, Text |-> a.Text, CreateTime |-> a.CreationTime]

convertProfile(p) ==
    IF p = Nil THEN [ID |-> "", Name |-> "", EmailAddress |-> "", PhotoURL |-> ""]
    ELSE [ID |-> p.Id, Name |-> p.Name.FullName, EmailAddress |-> p.EmailAddress,
          PhotoURL |-> p.PhotoUrl]

convertStudent(st) ==
    [UserID |-> st.UserId, Profile |-> convertProfile(st.Profile), CourseID |-> st.CourseId]

convertTeacher(t) ==
    [UserID |-> t.UserId, Profile |-> convertProfile(t.Profile), CourseID |-> t.CourseId]

ListOps ==
    {"ListCourses", "ListCourseWork", "ListStudentSubmissions", "ListAnnouncements",
     "ListStudents", "ListTeachers"}

GetOps == {"GetCourse", "GetCourseWork", "GetStudentSubmission"}

Ops == ListOps \cup GetOps

\* The operations that change the remote: they return an error only.
MutateOps == {"TurnIn"}

\* The n-th record the remote serves to operation o.
Remote(o, n) ==
    CASE o \in {"ListCourses", "GetCourse"} -> RemoteCourse(n)
      [] o \in {"ListCourseWork", "GetCourseWork"} -> RemoteCourseWork(n)
      [] o \in {"ListStudentSubmissions", "GetStudentSubmission"} -> RemoteSubmission(n)
      [] o = "ListAnnouncements" -> RemoteAnnouncement(n)
      [] OTHER -> RemoteMember(n)

\* The conversion operation o applies to each record.
convert(o, r) ==
    CASE o \in {"ListCourses", "GetCourse"} -> convertCourse(r)
      [] o \in {"ListCourseWork", "GetCourseWork"} -> convertCourseWork(r)
      [] o \in {"ListStudentSubmissions", "GetStudentSubmission"} -> convertSubmission(r)
      [] o = "ListAnnouncements" -> convertAnnouncement(r)
      [] o = "ListStudents" -> convertStudent(r)
      [] OTHER -> convertTeacher(r)

\* The mutant of AppendRecords: a page is put in front of the earlier pages.
AppendRecordsInFront(o, acc0, items) ==
    [i \in 1..Len(items) |-> convert(o, items[i])] \o acc0

\* for _, course := range resp.Courses { courses = append(courses, convertCourse(course)) }
AppendRecords(o, acc0, items) ==
    acc0 \o [i \in 1..Len(items) |-> convert(o, items[i])]

\* A failure that hands back the records of the pages fetched so far.
FailValuePartial(o, acc0) == IF o \in ListOps THEN acc0 ELSE Nil

\* return nil, fmt.Errorf(...): the nil slice of a List, the nil pointer of a
\* Get, whatever was appended before.
FailValue(o, acc0) == IF o \in ListOps THEN <<>> ELSE Nil

\* The message each operation wraps a failure in.
FailureMessage(o) ==
    CASE o = "ListCourses" -> "failed to list courses"
      [] o = "ListCourseWork" -> "failed to list coursework"
      [] o = "ListStudentSubmissions" -> "failed to list submissions"
      [] o = "ListAnnouncements" -> "failed to list announcements"
      [] o = "ListStudents" -> "failed to list students"
      [] o = "ListTeachers" -> "failed to list teachers"
      [] o = "GetCourse" -> "failed to get course"
      [] o = "GetCourseWork" -> "failed to get coursework"
      [] o = "TurnIn" -> "failed to turn in submission"
      [] OTHER -> "failed to get submission"

\* -------------------------------------------------------------------- cache
\* A cache key is the sequence of its pieces: the characters getPath replaces
\* ("/", ":", " ") stand alone, every other run of characters is one piece.
\* getPath: strings.ReplaceAll of "/", ":" and " " by "_", then ".json"
\* (the directory is the same for every key).
getPath(key) ==
    [i \in 1..Len(key) |-> IF key[i] \in {"/", ":", " "} THEN "_" ELSE key[i]]
        \o <<".json">>

\* json.Marshal(value): the compact JSON text of value.
Marshal(value) == [json |-> value, indented |-> FALSE]

\* json.MarshalIndent(entry, "", "  "): the text of the whole entry is
\* indented, the RawMessage in Data included.
MarshalIndent(entry) == [entry EXCEPT !.Data.indented = TRUE]

\* json.Compact: the JSON text without its insignificant white space.
Compact(raw) == [raw EXCEPT !.indented = FALSE]

\* A file os.WriteFile has opened (O_TRUNC) and not yet written, and a file
\* two writes have left with the end of the longer text after the shorter.
EmptyFile == [bytes |-> "empty"]

MixedFile == [bytes |-> "mixed"]

\* json.Unmarshal(data, &entry) returns no error.
Parses(content) == "Data" \in DOMAIN content

\* json.Unmarshal(data, &token) returns no error.
ParsesToken(content) == "AccessToken" \in DOMAIN content

\* The length of a file: one unit per JSON value of the payload, one for the
\* rest of the entry; a token file has no payload.
Size(content) ==
    CASE content = EmptyFile -> 0
      [] content = MixedFile -> 2
      [] ParsesToken(content) -> 1
      [] OTHER -> 1 + Len(content.Data.json)

\* An entry whose expiry is the instant it is cached.
NewEntryWithoutTTL(value, ttl, t) ==
    [Data |-> Marshal(value), CachedAt |-> t, ExpiresAt |-> t]

\* The CacheEntry Set writes at instant t.
NewEntry(value, ttl, t) ==
    [Data |-> Marshal(value), CachedAt |-> t, ExpiresAt |-> t + ttl]

\* time.Now().After(entry.ExpiresAt)
Expired(entry, t) == t > entry.ExpiresAt

\* The directory with the file at `path` written.
WriteFile(dir, path, entry) ==
    [q \in DOMAIN dir \cup {path} |-> IF q = path THEN entry ELSE dir[q]]

\* A removal that removes nothing.
RemoveNothing(dir, path) == dir

\* The directory with the file at `path` removed.
Remove(dir, path) == [q \in DOMAIN dir \ {path} |-> dir[q]]

\* A loop that stops after its first file.
RemoveFirst(dir, paths) ==
    IF paths = {} THEN dir
    ELSE [q \in DOMAIN dir \ {CHOOSE x \in paths : TRUE} |-> dir[q]]

\* Cache.Clear's loop: each file ReadDir listed is removed.
RECURSIVE RemoveEach(_, _)
RemoveEach(dir, paths) ==
    IF paths = {} THEN dir
    ELSE LET q == CHOOSE x \in paths : TRUE
         IN  RemoveEach(Remove(dir, q), paths \ {q})

\* ------------------------------------------------------------------- state
VARIABLES
    cfg,         \* the Configuration NewClient was given (after defaulting)
    pc,          \* where the one call in progress stands
    op,          \* the operation in progress
    ctxDone,     \* the caller's context is cancelled
    cancelledAt, \* where the call stood when the context was cancelled
    pageToken,   \* List: the continuation token of the last page
    reqToken,    \* the page token the current request carries
    acc,         \* List: the records assembled so far
    attempt,     \* executeWithRetry: the loop counter
    backoff,     \* executeWithRetry: the next delay
    lastErr,     \* executeWithRetry: lastErr
    sleepLeft,   \* seconds of the current time.Sleep still to pass
    calls,       \* what each fn() of this executeWithRetry returned
    sleeps,      \* the delays this executeWithRetry slept
    ret,         \* what executeWithRetry returned
    result,      \* what the operation returned
    served,      \* remote: the pages answered to this List call
    now,         \* the wall clock the cache reads
    files,       \* the cache directory: path -> CacheEntry of each file in it
    call,        \* the last call of a Cache method, and the time it was made
    got,         \* what that call returned, when it was Cache.Get
    stats,       \* what that call returned, when it was Cache.GetStats
    fps,         \* the calls of GenerateKey made so far, with what each returned
    procs,       \* goroutines sharing the cache: where each stands in its call
    tokenFile,   \* Authenticator: what tokens.json holds (Nil: no file)
    auths,       \* goroutines in Authenticator methods: where each stands
    remote,      \* the requests the OAuth token endpoint has received
    login,       \* the Login call: where it stands, its state token, its result
    chans,       \* Login: what codeChan and errChan hold
    handlers,    \* Login: the callbacks received, and what became of each
    server,      \* Login: the callback listener
    deleted,     \* DeleteToken has returned and no SaveToken has succeeded since
    shown        \* errors: the error last presented, with what was said of it

vars == <<cfg, pc, op, ctxDone, cancelledAt, pageToken, reqToken, acc, attempt,
          backoff, lastErr, sleepLeft, calls, sleeps, ret, result, served,
          now, files, got, call, stats, fps, procs,
          tokenFile, auths, remote, login, chans, handlers, server, deleted, shown>>

authVars == <<tokenFile, auths, remote, login, chans, handlers, server, deleted>>

cacheVars == <<now, files, got, call, stats, fps, procs>>

clientVars == <<cfg, pc, op, ctxDone, cancelledAt, pageToken, reqToken, acc, attempt,
                backoff, lastErr, sleepLeft, calls, sleeps, ret, result, served>>

retryVars == <<attempt, backoff, lastErr, sleepLeft, calls, sleeps>>

listVars == <<pageToken, reqToken, acc>>

NoRet == [resp |-> NilResp, err |-> NilErr, set |-> FALSE]

NoResult == [val |-> <<>>, err |-> NilErr, set |-> FALSE]

NoGot == [entry |-> Nil, hit |-> FALSE, err |-> ""]

\* A call: the method, its key, the time, whether the file of the key existed
\* and how many files the directory held when it was made, and whether the
\* call removed an expired entry.
Call(o, key, t, dir, ev) ==
    [op |-> o, key |-> key, at |-> t, existed |-> getPath(key) \in DOMAIN dir,
     count |-> Cardinality(DOMAIN dir), evicted |-> ev]

NoCall == Call("none", <<>>, 0, <<>>, FALSE)

NoStats == [TotalEntries |-> 0, ValidEntries |-> 0, ExpiredEntries |-> 0,
            TotalSize |-> 0, set |-> FALSE]

\* The goroutines that share one Cache.
Goroutines == {"g1", "g2"}

\* A goroutine outside every Authenticator method: token is the token the
\* call loaded, new the token it obtained, source the token its
\* oauth2.TokenSource holds, out what the last call returned.
IdleAuth ==
    [pc |-> "idle", op |-> "none", token |-> Nil, new |-> Nil, source |-> Nil,
     out |-> Nil]

\* No Login call yet. state counts the calls and is the state token of the
\* current one; registered says http.DefaultServeMux has a handler for
\* "/callback", and closure is the state token that handler compares with.
NoLogin ==
    [pc |-> "idle", state |-> 0, waited |-> 0, ctxDone |-> FALSE, code |-> "",
     token |-> Nil, saved |-> "no", err |-> "", registered |-> FALSE, closure |-> 0]

\* A goroutine: pc is "idle" between calls, "write" in Set between the open
\* and the write of os.WriteFile, "read" in Get after os.ReadFile; data is
\* the text to write or the text read; linked says the file opened is still
\* the one the directory names; out is what the last call returned.
IdleProc ==
    [pc |-> "idle", op |-> "none", key |-> <<>>, data |-> Nil, linked |-> FALSE,
     out |-> Nil]

\* The number of times fn was invoked by the executeWithRetry in progress.
Invoked == Len(calls) + (IF pc = "call" THEN 1 ELSE 0)

Init ==
    /\ cfg \in {NewClient(c) : c \in CallerConfigurations}
    /\ pc = "idle"
    /\ op = "none"
    /\ ctxDone = FALSE
    /\ cancelledAt = "none"
    /\ pageToken = NoToken
    /\ reqToken = NoToken
    /\ acc = <<>>
    /\ attempt = 0
    /\ backoff = time_Second
    /\ lastErr = NilErr
    /\ sleepLeft = 0
    /\ calls = <<>>
    /\ sleeps = <<>>
    /\ ret = NoRet
    /\ result = NoResult
    /\ served = <<>>
    /\ now = 0
    /\ files = <<>>
    /\ got = NoGot
    /\ call = NoCall
    /\ stats = NoStats
    /\ fps = <<>>
    /\ procs = [g \in Goroutines |-> IdleProc]
    /\ tokenFile = Nil
    /\ auths = [g \in Goroutines |-> IdleAuth]
    /\ remote = <<>>
    /\ login = NoLogin
    /\ chans = [code |-> <<>>, err |-> <<>>]
    /\ handlers = <<>>
    /\ server = "none"
    /\ deleted = FALSE
    /\ shown = Nil

\* The entry of executeWithRetry: lastErr nil, backoff one second, attempt 0.
EnterRetry ==
    /\ attempt' = 0
    /\ backoff' = time_Second
    /\ lastErr' = NilErr
    /\ sleepLeft' = 0
    /\ calls' = <<>>
    /\ sleeps' = <<>>
    /\ ret' = NoRet
    /\ pc' = "loop"

\* A caller starts an operation with a live context: the first request is
\* built without a page token and handed to executeWithRetry.
Start(o) ==
    /\ pc = "idle"
    /\ op' = o
    /\ ctxDone' = FALSE
    /\ cancelledAt' = "none"
    /\ pageToken' = NoToken
    /\ reqToken' = NoToken
    /\ acc' = <<>>
    /\ result' = NoResult
    /\ served' = <<>>
    /\ EnterRetry
    /\ UNCHANGED <<cfg, cacheVars, authVars, shown>>

\* The caller cancels the context while the call is in progress.
Cancel ==
    /\ pc \in {"loop", "call", "sleep"}
    /\ ~ctxDone
    /\ ctxDone' = TRUE
    /\ cancelledAt' = pc
    /\ UNCHANGED <<cfg, cacheVars, authVars, shown, pc, op, listVars, retryVars, ret, result, served>>

\* executeWithRetry returns: the caller's next step sees `ret`.
Return(resp, err) ==
    /\ ret' = [resp |-> resp, err |-> err, set |-> TRUE]
    /\ pc' = "ret"

\* The loop condition fails: "after 3 attempts: <lastErr>".
LoopExhausted ==
    /\ pc = "loop"
    /\ ~(attempt < MaxAttempts)
    /\ Return(NilResp, Errorf("after 3 attempts", lastErr))
    /\ UNCHANGED <<cfg, cacheVars, authVars, shown, op, ctxDone, cancelledAt, listVars, retryVars, result, served>>

\* case <-ctx.Done(): return nil, ctx.Err()
LoopCancelled ==
    /\ pc = "loop"
    /\ attempt < MaxAttempts
    /\ ctxDone
    /\ Return(NilResp, CtxErr)
    /\ UNCHANGED <<cfg, cacheVars, authVars, shown, op, ctxDone, cancelledAt, listVars, retryVars, result, served>>

\* default: fn() is invoked; the request is on its way.
Invoke ==
    /\ pc = "loop"
    /\ attempt < MaxAttempts
    /\ ~ctxDone
    /\ pc' = "call"
    /\ UNCHANGED <<cfg, cacheVars, authVars, shown, op, ctxDone, cancelledAt, listVars, retryVars, ret, result, served>>

\* The answers the remote can give to the request in flight.  A page holds
\* the next records of the collection and, while fewer than MaxPages pages
\* were served, possibly a continuation token.
ItemsServed == IF served = <<>> THEN 0 ELSE served[Len(served)].upto

Pages ==
    { [kind |-> "page",
       Items |-> [i \in 1..n |-> Remote(op, ItemsServed + i)],
       NextPageToken |-> t] :
         n \in 0..MaxPageSize,
         t \in {NoToken} \cup (IF Len(served) + 1 < MaxPages
                                  THEN {"page" \o ToString(Len(served) + 2)}
                                  ELSE {}) }

Responses ==
    CASE op \in ListOps -> Pages
      [] op \in MutateOps -> {[kind |-> "empty"]}
      [] OTHER -> {[kind |-> "record", Record |-> Remote(op, 1)]}

\* fn() returned resp, nil: return resp, nil.
FnSuccess ==
    /\ pc = "call"
    /\ \E resp \in Responses :
         /\ calls' = Append(calls, [resp |-> resp, err |-> NilErr])
         /\ served' = IF op \in ListOps
                         THEN Append(served, [token |-> reqToken,
                                              Items |-> resp.Items,
                                              NextPageToken |-> resp.NextPageToken,
                                              upto |-> ItemsServed + Len(resp.Items)])
                         ELSE served
         /\ ret' = ReturnSuccess(resp, lastErr)
         /\ pc' = "ret"
    /\ UNCHANGED <<cfg, cacheVars, authVars, shown, op, ctxDone, cancelledAt, listVars, attempt, backoff, lastErr,
                   sleepLeft, sleeps, result>>

\* fn() failed and isRateLimitError(err): lastErr = err; time.Sleep(backoff).
FnRateLimited ==
    /\ pc = "call"
    /\ \E err \in RemoteErrors :
         /\ isRateLimitError(err)
         /\ calls' = Append(calls, [resp |-> NilResp, err |-> err])
         /\ lastErr' = err
    /\ sleepLeft' = backoff
    /\ sleeps' = Append(sleeps, backoff)
    /\ pc' = "sleep"
    /\ UNCHANGED <<cfg, cacheVars, authVars, shown, op, ctxDone, cancelledAt, listVars, attempt, backoff, ret,
                   result, served>>

\* A second of the sleep passes.
SleepTick ==
    /\ pc = "sleep"
    /\ sleepLeft > 1
    /\ sleepLeft' = sleepLeft - 1
    /\ UNCHANGED <<cfg, cacheVars, authVars, shown, pc, op, ctxDone, cancelledAt, listVars, attempt, backoff,
                   lastErr, calls, sleeps, ret, result, served>>

\* The sleep ends: backoff *= 2; continue (attempt++).
Wake ==
    /\ pc = "sleep"
    /\ sleepLeft <= 1
    /\ sleepLeft' = 0
    /\ backoff' = NextBackoff(backoff)
    /\ attempt' = attempt + 1
    /\ pc' = "loop"
    /\ UNCHANGED <<cfg, cacheVars, authVars, shown, op, ctxDone, cancelledAt, listVars, lastErr, calls, sleeps,
                   ret, result, served>>

\* fn() failed, not a rate limit, and isAPIError(err): return nil, err.
FnAPIError ==
    /\ pc = "call"
    /\ \E err \in RemoteErrors :
         /\ ~isRateLimitError(err)
         /\ isAPIError(err)
         /\ calls' = Append(calls, [resp |-> NilResp, err |-> err])
         /\ Return(NilResp, err)
    /\ UNCHANGED <<cfg, cacheVars, authVars, shown, op, ctxDone, cancelledAt, listVars, attempt, backoff, lastErr,
                   sleepLeft, sleeps, result, served>>

\* fn() failed with any other error: lastErr = err and the loop goes on at once.
FnOtherError ==
    /\ pc = "call"
    /\ \E err \in RemoteErrors :
         /\ ~isRateLimitError(err)
         /\ ~isAPIError(err)
         /\ calls' = Append(calls, [resp |-> NilResp, err |-> err])
         /\ lastErr' = err
    /\ attempt' = attempt + 1
    /\ pc' = "loop"
    /\ UNCHANGED <<cfg, cacheVars, authVars, shown, op, ctxDone, cancelledAt, listVars, backoff, sleepLeft, sleeps,
                   ret, result, served>>

\* List: a page arrived with a continuation token: its records are appended
\* and the next request carries that token.
ListNextPage ==
    /\ pc = "ret"
    /\ op \in ListOps
    /\ ret.err = NilErr
    /\ ret.resp.NextPageToken # NoToken
    /\ acc' = AppendRecords(op, acc, ret.resp.Items)
    /\ pageToken' = ret.resp.NextPageToken
    /\ reqToken' = ret.resp.NextPageToken
    /\ EnterRetry
    /\ UNCHANGED <<cfg, cacheVars, authVars, shown, op, ctxDone, cancelledAt, result, served>>

\* List: a page arrived without a continuation token: break; return records, nil.
ListReturn ==
    /\ pc = "ret"
    /\ op \in ListOps
    /\ ret.err = NilErr
    /\ ret.resp.NextPageToken = NoToken
    /\ acc' = AppendRecords(op, acc, ret.resp.Items)
    /\ pageToken' = NoToken
    /\ result' = [val |-> acc', err |-> NilErr, set |-> TRUE]
    /\ pc' = "done"
    /\ UNCHANGED <<cfg, cacheVars, authVars, shown, op, ctxDone, cancelledAt, reqToken, retryVars, ret, served>>

\* Get: return convert...(resp), nil.
GetReturn ==
    /\ pc = "ret"
    /\ op \in GetOps
    /\ ret.err = NilErr
    /\ result' = [val |-> convert(op, ret.resp.Record), err |-> NilErr, set |-> TRUE]
    /\ pc' = "done"
    /\ UNCHANGED <<cfg, cacheVars, authVars, shown, op, ctxDone, cancelledAt, listVars, retryVars, ret, served>>

\* TurnIn: return nil.
TurnInReturn ==
    /\ pc = "ret"
    /\ op \in MutateOps
    /\ ret.err = NilErr
    /\ result' = [val |-> Nil, err |-> NilErr, set |-> TRUE]
    /\ pc' = "done"
    /\ UNCHANGED <<cfg, cacheVars, authVars, shown, op, ctxDone, cancelledAt, listVars, retryVars, ret, served>>

\* if err != nil { return nil, fmt.Errorf("failed to ...: %w", err) }
Fail ==
    /\ pc = "ret"
    /\ ret.err # NilErr
    /\ result' = [val |-> FailValue(op, acc),
                  err |-> Errorf(FailureMessage(op), ret.err), set |-> TRUE]
    /\ pc' = "done"
    /\ UNCHANGED <<cfg, cacheVars, authVars, shown, op, ctxDone, cancelledAt, listVars, retryVars, ret, served>>

\* The caller has its result; the client is ready for the next call.
Finish ==
    /\ pc = "done"
    /\ pc' = "idle"
    /\ op' = "none"
    /\ ctxDone' = FALSE
    /\ cancelledAt' = "none"
    /\ pageToken' = NoToken
    /\ reqToken' = NoToken
    /\ acc' = <<>>
    /\ attempt' = 0
    /\ backoff' = time_Second
    /\ lastErr' = NilErr
    /\ sleepLeft' = 0
    /\ calls' = <<>>
    /\ sleeps' = <<>>
    /\ ret' = NoRet
    /\ result' = NoResult
    /\ served' = <<>>
    /\ UNCHANGED <<cfg, cacheVars, authVars, shown>>

Next ==
    \/ \E o \in Ops : Start(o)
    \/ Cancel
    \/ LoopExhausted
    \/ LoopCancelled
    \/ Invoke
    \/ FnSuccess
    \/ FnRateLimited
    \/ SleepTick
    \/ Wake
    \/ FnAPIError
    \/ FnOtherError
    \/ ListNextPage
    \/ ListReturn
    \/ GetReturn
    \/ Fail
    \/ Finish

Spec == Init /\ [][Next]_vars

\* What Cache.Get returns after os.ReadFile: `present` is FALSE when the file
\* did not exist, `content` is what was read, t is time.Now() at the test.
GetResult(present, content, t) ==
    CASE ~present -> [entry |-> Nil, hit |-> FALSE, err |-> ""]
      [] present /\ ~Parses(content) ->
             [entry |-> Nil, hit |-> FALSE, err |-> "failed to parse cache entry"]
      [] present /\ Parses(content) /\ Expired(content, t) ->
             [entry |-> Nil, hit |-> FALSE, err |-> ""]
      [] OTHER -> [entry |-> content, hit |-> TRUE, err |-> ""]

\* Cache.Get without its os.Remove.
EvictsNever(present, content, t) == FALSE

\* Cache.Get removes the file: it was read, parsed, and has expired.
Evicts(present, content, t) == present /\ Parses(content) /\ Expired(content, t)

\* The content Cache.Get reads at `path` (Nil when there is no file).
ReadFile(dir, path) == IF path \in DOMAIN dir THEN dir[path] ELSE Nil

RECURSIVE TotalSize(_, _)
TotalSize(dir, paths) ==
    IF paths = {} THEN 0
    ELSE LET q == CHOOSE x \in paths : TRUE
         IN  Size(dir[q]) + TotalSize(dir, paths \ {q})

\* Cache.GetStats over the directory at instant t: every file counts in
\* TotalEntries and TotalSize; only a file that parses counts as valid or
\* expired.
Census(dir, t) ==
    [TotalEntries |-> Cardinality(DOMAIN dir),
     ValidEntries |->
         Cardinality({q \in DOMAIN dir : Parses(dir[q]) /\ ~Expired(dir[q], t)}),
     ExpiredEntries |->
         Cardinality({q \in DOMAIN dir : Parses(dir[q]) /\ Expired(dir[q], t)}),
     TotalSize |-> TotalSize(dir, DOMAIN dir),
     set |-> TRUE]

\* Cache.Set(key, value, ttl): the entry is written over whatever the file held.
CacheSet(key, value, ttl) ==
    /\ files' = WriteFile(files, getPath(key), MarshalIndent(NewEntry(value, ttl, now)))
    /\ call' = Call("Set", key, now, files, FALSE)
    /\ got' = NoGot
    /\ stats' = NoStats
    /\ UNCHANGED <<clientVars, authVars, shown, now, fps, procs>>

\* Cache.Get(key): a miss when there is no file; an expired entry is removed
\* and is a miss; any other entry is returned.
CacheGet(key) ==
    LET path == getPath(key)
        present == path \in DOMAIN files
        content == ReadFile(files, path)
    IN  /\ got' = GetResult(present, content, now)
        /\ files' = IF Evicts(present, content, now) THEN Remove(files, path) ELSE files
        /\ call' = Call("Get", key, now, files, Evicts(present, content, now))
        /\ stats' = NoStats
        /\ UNCHANGED <<clientVars, authVars, shown, now, fps, procs>>

\* Cache.Delete(key): the file is removed; no file is no error.
CacheDelete(key) ==
    /\ files' = Remove(files, getPath(key))
    /\ call' = Call("Delete", key, now, files, FALSE)
    /\ got' = NoGot
    /\ stats' = NoStats
    /\ UNCHANGED <<clientVars, authVars, shown, now, fps, procs>>

\* Cache.Clear(): every file of the directory is removed.
CacheClear ==
    /\ files' = RemoveEach(files, DOMAIN files)
    /\ call' = Call("Clear", <<>>, now, files, FALSE)
    /\ got' = NoGot
    /\ stats' = NoStats
    /\ UNCHANGED <<clientVars, authVars, shown, now, fps, procs>>

\* Cache.GetStats(): the census of the directory; nothing is removed.
CacheGetStats ==
    /\ stats' = Census(files, now)
    /\ call' = Call("GetStats", <<>>, now, files, FALSE)
    /\ got' = NoGot
    /\ UNCHANGED <<clientVars, authVars, shown, now, files, fps, procs>>

\* Time passes.
Tick ==
    /\ now < MaxNow
    /\ now' = now + 1
    /\ UNCHANGED <<clientVars, authVars, shown, files, got, call, stats, fps, procs>>

\* The keys and values the cache is used with beside the client.
CacheKeys == {<<"courses">>, <<"courses", "/", "1">>}

CacheValues == {<<convertCourse(RemoteCourse(1))>>}

\* The client with a remote that always answers and a context that is never
\* cancelled, and the cache in use in the same process.
NextCachedClient ==
    \/ \E o \in Ops : Start(o)
    \/ Invoke
    \/ FnSuccess
    \/ ListNextPage
    \/ ListReturn
    \/ GetReturn
    \/ Finish
    \/ \E k \in CacheKeys, v \in CacheValues, ttl \in 1..MaxTTL : CacheSet(k, v, ttl)
    \/ \E k \in CacheKeys : CacheGet(k)
    \/ Tick

SpecCachedClient == Init /\ [][NextCachedClient]_vars

\* TurnIn with every answer the remote can give and a context that may be
\* cancelled, while entries are put into the cache and deleted from it.
NextTurnIn ==
    \/ \E o \in MutateOps : Start(o)
    \/ Cancel
    \/ LoopExhausted
    \/ LoopCancelled
    \/ Invoke
    \/ FnSuccess
    \/ FnRateLimited
    \/ SleepTick
    \/ Wake
    \/ FnAPIError
    \/ FnOtherError
    \/ TurnInReturn
    \/ Fail
    \/ Finish
    \/ \E k \in CacheKeys, v \in CacheValues : CacheSet(k, v, 1)
    \/ \E k \in CacheKeys : CacheDelete(k)

SpecTurnIn == Init /\ [][NextTurnIn]_vars

\* The keys the cache alone is used with: two of them differ only in a
\* character getPath replaces.
Keys == CacheKeys \cup {<<"courses", ":", "1">>}

\* The values stored: a list of one course and the empty list.
Payloads == CacheValues \cup {<<>>}

\* The durations callers pass to Set: time.Duration is signed.
Durations == -1..MaxTTL

\* The cache used by one goroutine: every call returns before the next starts.
NextCache ==
    \/ \E k \in Keys, v \in Payloads, ttl \in Durations : CacheSet(k, v, ttl)
    \/ \E k \in Keys : CacheGet(k)
    \/ \E k \in Keys : CacheDelete(k)
    \/ CacheClear
    \/ CacheGetStats
    \/ Tick

InitCache == Init /\ cfg = NewClient(Nil)

SpecCache == InitCache /\ [][NextCache]_vars

\* ------------------------------------------------------------ GenerateKey
\* Strings are sequences of pieces, as cache keys are: "&" and "=" stand
\* alone. A parameter map is a function from names to values.

\* fmt.Sprintf("%s=%s", key, value)
Part(name, value) == name \o <<"=">> \o value

\* strings.Join(parts, sep)
RECURSIVE Join(_, _)
Join(parts, sep) ==
    IF parts = <<>> THEN <<>>
    ELSE IF Len(parts) = 1 THEN parts[1]
    ELSE parts[1] \o sep \o Join(Tail(parts), sep)

\* The orders `for key, value := range params` can visit the map in: Go
\* leaves the iteration order of a map unspecified and varies it by run.
RangeOrders(params) ==
    {o \in [1..Cardinality(DOMAIN params) -> DOMAIN params] :
        \A i, j \in DOMAIN o : i # j => o[i] # o[j]}

\* GenerateKey(endpoint, params) when range visits the map in `order`.
GenerateKey(endpoint, params, order) ==
    Join(<<endpoint>> \o [i \in DOMAIN order |-> Part(order[i], params[order[i]])],
         <<"&">>)

\* The endpoints and parameter maps GenerateKey is called with.
Endpoints == {<<"courses">>, <<"courses", "&", "courseId", "=", "1">>}

ParamMaps ==
    {<<>>,
     <<"courseId">> :> <<"1">>,
     (<<"courseId">> :> <<"1">>) @@ (<<"userId">> :> <<"2">>),
     <<"courseId">> :> <<"1", "&", "userId", "=", "2">>}

\* A call of GenerateKey.
Generate(endpoint, params) ==
    /\ Len(fps) < MaxKeys
    /\ \E order \in RangeOrders(params) :
          fps' = Append(fps, [endpoint |-> endpoint, params |-> params,
                              key |-> GenerateKey(endpoint, params, order)])
    /\ UNCHANGED <<clientVars, authVars, shown, now, files, got, call, stats, procs>>

NextGenerateKey == \E e \in Endpoints, p \in ParamMaps : Generate(e, p)

SpecGenerateKey == InitCache /\ [][NextGenerateKey]_vars

\* ------------------------------------------- the cache shared by goroutines
\* Cache has no mutex: the calls of two goroutines interleave at every access
\* to the file system.

\* What the file holds after `data` is written at offset 0 over `content`: the
\* data alone when the file was empty or shorter, the data followed by the end
\* of the old text when it was longer; entries with payloads of one length
\* differ in length by their timestamps.
Overwrite(content, data) ==
    CASE content = EmptyFile \/ content = data -> {data}
      [] Size(data) > Size(content) -> {data}
      [] Size(data) < Size(content) -> {MixedFile}
      [] OTHER -> {data, MixedFile}

\* The goroutines after the files at `paths` were removed: a file a Set has
\* open is no longer the file of its path.
Unlinked(ps, paths) ==
    [h \in Goroutines |->
        IF ps[h].pc = "write" /\ getPath(ps[h].key) \in paths
        THEN [ps[h] EXCEPT !.linked = FALSE] ELSE ps[h]]

\* Goroutine g back from method o with `out`.
ProcReturned(g, o, key, out) ==
    [pc |-> "idle", op |-> o, key |-> key, data |-> Nil, linked |-> FALSE, out |-> out]

\* Set up to the open of os.WriteFile: the entry is built and marshalled, the
\* file is created or truncated.
SetOpen(g, key, value, ttl) ==
    /\ procs[g].pc = "idle"
    /\ files' = WriteFile(files, getPath(key), EmptyFile)
    /\ procs' = [procs EXCEPT ![g] =
                    [pc |-> "write", op |-> "Set", key |-> key,
                     data |-> MarshalIndent(NewEntry(value, ttl, now)),
                     linked |-> TRUE, out |-> Nil]]
    /\ UNCHANGED <<clientVars, authVars, shown, now, got, call, stats, fps>>

\* The write of os.WriteFile and the return of Set.
SetWrite(g) ==
    /\ procs[g].pc = "write"
    /\ IF procs[g].linked
          THEN \E text \in Overwrite(files[getPath(procs[g].key)], procs[g].data) :
                  files' = WriteFile(files, getPath(procs[g].key), text)
          ELSE UNCHANGED files
    /\ procs' = [procs EXCEPT ![g] = ProcReturned(g, "Set", procs[g].key, Nil)]
    /\ UNCHANGED <<clientVars, authVars, shown, now, got, call, stats, fps>>

\* Get up to the return of os.ReadFile.
GetRead(g, key) ==
    /\ procs[g].pc = "idle"
    /\ procs' = [procs EXCEPT ![g] =
                    [pc |-> "read", op |-> "Get", key |-> key,
                     data |-> [present |-> getPath(key) \in DOMAIN files,
                               content |-> ReadFile(files, getPath(key))],
                     linked |-> FALSE, out |-> Nil]]
    /\ UNCHANGED <<clientVars, authVars, shown, now, files, got, call, stats, fps>>

\* The rest of Get: the text read is parsed, an expired entry is removed
\* from the directory as it is now.
GetFinish(g) ==
    /\ procs[g].pc = "read"
    /\ LET d == procs[g].data
           path == getPath(procs[g].key)
           out == GetResult(d.present, d.content, now)
       IN  IF Evicts(d.present, d.content, now)
              THEN /\ files' = Remove(files, path)
                   /\ procs' = [Unlinked(procs, {path}) EXCEPT ![g] =
                                   ProcReturned(g, "Get", procs[g].key, out)]
              ELSE /\ UNCHANGED files
                   /\ procs' = [procs EXCEPT ![g] = ProcReturned(g, "Get", procs[g].key, out)]
    /\ UNCHANGED <<clientVars, authVars, shown, now, got, call, stats, fps>>

\* Delete by goroutine g.
DeleteBy(g, key) ==
    /\ procs[g].pc = "idle"
    /\ files' = Remove(files, getPath(key))
    /\ procs' = [Unlinked(procs, {getPath(key)}) EXCEPT ![g] =
                    ProcReturned(g, "Delete", key, Nil)]
    /\ UNCHANGED <<clientVars, authVars, shown, now, got, call, stats, fps>>

\* GetStats by goroutine g.
GetStatsBy(g) ==
    /\ procs[g].pc = "idle"
    /\ procs' = [procs EXCEPT ![g] = ProcReturned(g, "GetStats", <<>>, Census(files, now))]
    /\ UNCHANGED <<clientVars, authVars, shown, now, files, got, call, stats, fps>>

NextCacheShared ==
    \/ \E g \in Goroutines, k \in CacheKeys, v \in Payloads, ttl \in 1..MaxTTL :
          SetOpen(g, k, v, ttl)
    \/ \E g \in Goroutines : SetWrite(g)
    \/ \E g \in Goroutines, k \in CacheKeys : GetRead(g, k)
    \/ \E g \in Goroutines : GetFinish(g)
    \/ \E g \in Goroutines, k \in CacheKeys : DeleteBy(g, k)
    \/ \E g \in Goroutines : GetStatsBy(g)
    \/ Tick

SpecCacheShared == InitCache /\ [][NextCacheShared]_vars

\* ----------------------------------------------------------- Authenticator
\* An oauth2.Token is [AccessToken, RefreshToken, Expiry]; access tokens are
\* numbered (0: none), the refresh token is "rt" or "". tokens.json holds the
\* token as json.MarshalIndent wrote it, or EmptyFile or MixedFile.

\* oauth2.Token.Valid: an access token that has not expired.
Valid(token, t) == token.AccessToken # 0 /\ ~(token.Expiry < t)

\* loadToken
loadToken(content) ==
    CASE content = Nil -> [token |-> Nil, err |-> "no stored token found"]
      [] content # Nil /\ ~ParsesToken(content) ->
             [token |-> Nil, err |-> "failed to parse token"]
      [] OTHER -> [token |-> content, err |-> ""]

\* An IsAuthenticated that asks for a valid access token only.
IsAuthenticatedValidOnly(content, t) ==
    /\ loadToken(content).err = ""
    /\ Valid(loadToken(content).token, t)

\* IsAuthenticated at instant t
IsAuthenticated(content, t) ==
    /\ loadToken(content).err = ""
    /\ Valid(loadToken(content).token, t) \/ loadToken(content).token.RefreshToken # ""

\* The token the endpoint issues for its n-th request at instant t; the
\* refresh token given is kept.
Issued(n, refreshToken, t) ==
    [AccessToken |-> n + 1, RefreshToken |-> refreshToken, Expiry |-> t + 1]

\* The tokens callers save: expiring at instant 0, with and without a
\* refresh token.
StoredTokens ==
    {[AccessToken |-> 1, RefreshToken |-> rt, Expiry |-> 0] : rt \in {"rt", ""}}

\* A RefreshToken that takes every stored token to the token endpoint.
NeverTerminal(token) == FALSE

\* RefreshToken: the token has no refresh token, the user must log in again.
Terminal(token) == token.RefreshToken = ""

\* The tokens a lone caller saves: with and without access token and refresh
\* token, expiring at instant 0 or 1.
SoloTokens ==
    {[AccessToken |-> a, RefreshToken |-> rt, Expiry |-> e] :
        a \in {0, 1}, rt \in {"rt", ""}, e \in {0, 1}}

\* Goroutine g back from method o with `out`; its token source stays.
AuthReturned(g, o, out) ==
    [auths EXCEPT ![g] = [pc |-> "idle", op |-> o, token |-> Nil, new |-> Nil,
                          source |-> auths[g].source, out |-> out]]

\* A token endpoint request can still be made within the bound.
CanRequest ==
    Len(remote) + Cardinality({h \in Goroutines : auths[h].pc = "refresh"}) < MaxRequests

\* SaveToken(token) is called: the directory is made, the token marshalled.
SaveTokenCall(g, token) ==
    /\ auths[g].pc = "idle"
    /\ auths' = [auths EXCEPT ![g] = [@ EXCEPT !.pc = "save", !.op = "SaveToken",
                                               !.new = token, !.out = Nil]]
    /\ UNCHANGED <<clientVars, cacheVars, shown, deleted, tokenFile, remote, login, chans, handlers, server>>

\* SaveToken: os.WriteFile opens the file (O_TRUNC), or fails.
SaveOpen(g) ==
    /\ auths[g].pc = "save"
    /\ \/ /\ tokenFile' = EmptyFile
          /\ auths' = [auths EXCEPT ![g].pc = "write"]
       \/ /\ auths' = AuthReturned(g, auths[g].op,
                                   [token |-> Nil, err |-> "failed to write token"])
          /\ UNCHANGED tokenFile
    /\ UNCHANGED <<clientVars, cacheVars, shown, deleted, remote, login, chans, handlers, server>>

\* SaveToken: os.WriteFile writes; SaveToken and its caller return.
SaveWrite(g) ==
    /\ auths[g].pc = "write"
    /\ IF tokenFile = Nil THEN UNCHANGED tokenFile
       ELSE tokenFile' \in Overwrite(tokenFile, auths[g].new)
    /\ auths' = AuthReturned(g, auths[g].op,
                             [token |-> IF auths[g].op = "RefreshToken"
                                        THEN auths[g].new ELSE Nil,
                              err |-> ""])
    /\ deleted' = FALSE
    /\ UNCHANGED <<clientVars, cacheVars, shown, remote, login, chans, handlers, server>>

\* SaveToken: os.WriteFile fails in the write, the file is left as opened.
SaveWriteFail(g) ==
    /\ auths[g].pc = "write"
    /\ auths' = AuthReturned(g, auths[g].op,
                             [token |-> Nil, err |-> "failed to write token"])
    /\ UNCHANGED <<clientVars, cacheVars, shown, deleted, tokenFile, remote, login, chans, handlers, server>>

\* RefreshToken up to its two early returns: loadToken, then the test of the
\* refresh token.
RefreshLoad(g) ==
    /\ auths[g].pc = "idle"
    /\ CanRequest
    /\ LET l == loadToken(tokenFile)
       IN  auths' =
              IF l.err # "" THEN AuthReturned(g, "RefreshToken", l)
              ELSE IF Terminal(l.token)
              THEN AuthReturned(g, "RefreshToken",
                                [token |-> Nil, err |-> "no refresh token available"])
              ELSE [auths EXCEPT ![g] = [@ EXCEPT !.pc = "refresh", !.op = "RefreshToken",
                                                  !.token = l.token, !.out = Nil]]
    /\ UNCHANGED <<clientVars, cacheVars, shown, deleted, tokenFile, remote, login, chans, handlers, server>>

\* a.config.TokenSource(ctx, token).Token(): a token still valid is returned
\* as it is; an expired one is refreshed at the token endpoint, which issues
\* a token or refuses.
RefreshRemote(g) ==
    /\ auths[g].pc = "refresh"
    /\ IF Valid(auths[g].token, now)
          THEN /\ auths' = [auths EXCEPT ![g].pc = "save", ![g].new = auths[g].token]
               /\ UNCHANGED remote
          ELSE /\ remote' = Append(remote, [grant |-> "refresh_token",
                                            old |-> auths[g].token])
               /\ \/ auths' = [auths EXCEPT ![g].pc = "save",
                                  ![g].new = Issued(Len(remote') , auths[g].token.RefreshToken, now)]
                  \/ auths' = AuthReturned(g, "RefreshToken",
                                 [token |-> Nil, err |-> "failed to refresh token"])
    /\ UNCHANGED <<clientVars, cacheVars, shown, deleted, tokenFile, login, chans, handlers, server>>

\* TokenSource(ctx): the stored token is loaded into an oauth2 token source.
TokenSource(g) ==
    /\ auths[g].pc = "idle"
    /\ LET l == loadToken(tokenFile)
       IN  auths' = [AuthReturned(g, "TokenSource", [token |-> Nil, err |-> l.err])
                        EXCEPT ![g].source = IF l.err = "" THEN l.token ELSE Nil]
    /\ UNCHANGED <<clientVars, cacheVars, shown, deleted, tokenFile, remote, login, chans, handlers, server>>

\* A request of the http client oauth2.NewClient(ctx, ts) built: the
\* transport asks the source for a token and attaches it. The source returns
\* its token while it is valid and refreshes it when it has expired.
SourceToken(g) ==
    /\ auths[g].pc = "idle"
    /\ auths[g].source # Nil
    /\ LET src == auths[g].source
       IN  IF Valid(src, now)
              THEN /\ auths' = AuthReturned(g, "Request", [token |-> src, err |-> ""])
                   /\ UNCHANGED remote
              ELSE IF src.RefreshToken = ""
              THEN /\ auths' = AuthReturned(g, "Request",
                          [token |-> Nil, err |-> "token expired and refresh token is not set"])
                   /\ UNCHANGED remote
              ELSE /\ CanRequest
                   /\ remote' = Append(remote, [grant |-> "refresh_token",
                                                old |-> src])
                   /\ \/ auths' =
                            [AuthReturned(g, "Request",
                                [token |-> Issued(Len(remote'), src.RefreshToken, now),
                                 err |-> ""])
                             EXCEPT ![g].source = Issued(Len(remote'), src.RefreshToken, now)]
                      \/ auths' = AuthReturned(g, "Request",
                                     [token |-> Nil, err |-> "failed to refresh token"])
    /\ UNCHANGED <<clientVars, cacheVars, shown, deleted, tokenFile, login, chans, handlers, server>>

\* IsAuthenticated(): out.token is what loadToken read.
IsAuthenticatedCall(g) ==
    /\ auths[g].pc = "idle"
    /\ auths' = AuthReturned(g, "IsAuthenticated",
                             [token |-> tokenFile, err |-> loadToken(tokenFile).err,
                              ok |-> IsAuthenticated(tokenFile, now), at |-> now])
    /\ UNCHANGED <<clientVars, cacheVars, shown, deleted, tokenFile, remote, login, chans, handlers, server>>

\* DeleteToken(), while no goroutine holds the file open for writing.
DeleteToken(g) ==
    /\ auths[g].pc = "idle"
    /\ \A h \in Goroutines : auths[h].pc # "write"
    /\ tokenFile' = Nil
    /\ deleted' = TRUE
    /\ auths' = AuthReturned(g, "DeleteToken", [token |-> Nil, err |-> ""])
    /\ UNCHANGED <<clientVars, cacheVars, shown, remote, login, chans, handlers, server>>

NextAuth ==
    \/ \E g \in Goroutines, token \in StoredTokens : SaveTokenCall(g, token)
    \/ \E g \in Goroutines : SaveOpen(g)
    \/ \E g \in Goroutines : SaveWrite(g)
    \/ \E g \in Goroutines : SaveWriteFail(g)
    \/ \E g \in Goroutines : RefreshLoad(g)
    \/ \E g \in Goroutines : RefreshRemote(g)
    \/ \E g \in Goroutines : TokenSource(g)
    \/ \E g \in Goroutines : SourceToken(g)
    \/ \E g \in Goroutines : IsAuthenticatedCall(g)
    \/ \E g \in Goroutines : DeleteToken(g)
    \/ Tick

SpecAuth == InitCache /\ [][NextAuth]_vars

\* One goroutine alone calls the Authenticator.
NextAuthSolo ==
    \/ \E token \in SoloTokens : SaveTokenCall("g1", token)
    \/ SaveOpen("g1")
    \/ SaveWrite("g1")
    \/ SaveWriteFail("g1")
    \/ RefreshLoad("g1")
    \/ RefreshRemote("g1")
    \/ TokenSource("g1")
    \/ SourceToken("g1")
    \/ IsAuthenticatedCall("g1")
    \/ DeleteToken("g1")
    \/ Tick

SpecAuthSolo == InitCache /\ [][NextAuthSolo]_vars

\* ------------------------------------------------------------------- Login
\* codeChan and errChan are channels of capacity 1: chans.code and chans.err
\* are their buffers. Each callback runs the handler in a goroutine of its
\* own; handlers records what became of each.

\* A Login that swallows the error of SaveToken.
SaveErrorSwallowed(ok) == ""

\* Login: what the SaveToken branch returns.
SaveError(ok) == IF ok THEN "" ELSE "failed to save token"

\* A handler that does not look at the state token.
VerdictAnyState(st, code) ==
    IF code = ""
    THEN [chan |-> "err", msg |-> "no code in callback", status |-> 400]
    ELSE [chan |-> "code", msg |-> code, status |-> 200]

\* The handler's verdict on a callback: the channel it sends on, what it
\* sends, and the HTTP status it answers with after the send.
Verdict(st, code) ==
    IF st # login.closure
    THEN [chan |-> "err", msg |-> "state mismatch", status |-> 400]
    ELSE IF code = ""
    THEN [chan |-> "err", msg |-> "no code in callback", status |-> 400]
    ELSE [chan |-> "code", msg |-> code, status |-> 200]

\* Login up to the select, the first call or one after an earlier call has
\* returned: the state token, the browser (which may fail to open), the
\* channels, the handler (http.HandleFunc panics when the pattern is already
\* registered), the goroutine that will listen.
LoginStart ==
    /\ login.pc \in {"idle", "done"}
    /\ login.state < MaxLogins
    /\ LET fresh == [NoLogin EXCEPT !.state = login.state + 1,
                                    !.registered = login.registered,
                                    !.closure = login.closure]
       IN  \/ /\ login' = [fresh EXCEPT !.pc = "done", !.err = "failed to open browser"]
              /\ UNCHANGED <<server, chans>>
           \/ /\ login.registered
              /\ login' = [fresh EXCEPT !.pc = "panic"]
              /\ UNCHANGED <<server, chans>>
           \/ /\ ~login.registered
              /\ login' = [fresh EXCEPT !.pc = "wait", !.registered = TRUE,
                                        !.closure = login.state + 1]
              /\ chans' = [code |-> <<>>, err |-> <<>>]
              /\ server' = "starting"
    /\ UNCHANGED <<clientVars, cacheVars, shown, deleted, tokenFile, auths, remote, handlers>>

\* server.ListenAndServe(): the port is bound, or the error goes to errChan.
Listen ==
    /\ server = "starting"
    /\ \/ server' = "listening" /\ UNCHANGED chans
       \/ /\ Len(chans.err) = 0
          /\ server' = "failed"
          /\ chans' = [chans EXCEPT !.err = <<"listen error">>]
    /\ UNCHANGED <<clientVars, cacheVars, shown, deleted, tokenFile, auths, remote, login, handlers>>

\* A callback with state st and code `code` reaches the handler: it sends on
\* its channel and answers, or blocks in the send when the buffer is full.
Callback(st, code) ==
    /\ server = "listening"
    /\ Len(handlers) < MaxCallbacks
    /\ LET v == Verdict(st, code)
           room == Len(chans[v.chan]) = 0
       IN  /\ handlers' = Append(handlers,
                  [state |-> st, code |-> code, during |-> login.pc, chan |-> v.chan,
                   msg |-> v.msg, status |-> IF room THEN v.status ELSE 0])
           /\ chans' = IF room THEN [chans EXCEPT ![v.chan] = <<v.msg>>] ELSE chans
    /\ UNCHANGED <<clientVars, cacheVars, shown, deleted, tokenFile, auths, remote, login, server>>

\* A handler blocked in its send goes on once the buffer has room.
HandlerResume(i) ==
    /\ handlers[i].status = 0
    /\ Len(chans[handlers[i].chan]) = 0
    /\ chans' = [chans EXCEPT ![handlers[i].chan] = <<handlers[i].msg>>]
    /\ handlers' = [handlers EXCEPT ![i].status =
                       Verdict(handlers[i].state, handlers[i].code).status]
    /\ UNCHANGED <<clientVars, cacheVars, shown, deleted, tokenFile, auths, remote, login, server>>

\* server.Shutdown(ctx): the listener is closed at once; the call then waits
\* for the handlers still running, or for ctx.
Shutdown == IF server = "none" THEN "none" ELSE "closed"

\* select: case code := <-codeChan
LoginSelectCode ==
    /\ login.pc = "wait"
    /\ chans.code # <<>>
    /\ login' = [login EXCEPT !.pc = "exchange", !.code = Head(chans.code)]
    /\ chans' = [chans EXCEPT !.code = <<>>]
    /\ UNCHANGED <<clientVars, cacheVars, shown, deleted, tokenFile, auths, remote, handlers, server>>

\* select: case err := <-errChan
LoginSelectErr ==
    /\ login.pc = "wait"
    /\ chans.err # <<>>
    /\ login' = [login EXCEPT !.pc = "shutdown", !.err = Head(chans.err)]
    /\ chans' = [chans EXCEPT !.err = <<>>]
    /\ server' = Shutdown
    /\ UNCHANGED <<clientVars, cacheVars, shown, deleted, tokenFile, auths, remote, handlers>>

\* select: case <-time.After(5 * time.Minute)
LoginSelectTimeout ==
    /\ login.pc = "wait"
    /\ login.waited = LoginTimeout
    /\ login' = [login EXCEPT !.pc = "shutdown", !.err = "authentication timeout"]
    /\ server' = Shutdown
    /\ UNCHANGED <<clientVars, cacheVars, shown, deleted, tokenFile, auths, remote, chans, handlers>>

\* A minute passes while Login is blocked in the select.
LoginWaitTick ==
    /\ login.pc = "wait"
    /\ login.waited < LoginTimeout
    /\ login' = [login EXCEPT !.waited = @ + 1]
    /\ UNCHANGED <<clientVars, cacheVars, shown, deleted, tokenFile, auths, remote, chans, handlers, server>>

\* The caller cancels the context Login was given.
LoginCancel ==
    /\ login.pc \in {"wait", "exchange", "save", "shutdown"}
    /\ ~login.ctxDone
    /\ login' = [login EXCEPT !.ctxDone = TRUE]
    /\ UNCHANGED <<clientVars, cacheVars, shown, deleted, tokenFile, auths, remote, chans, handlers, server>>

\* a.ExchangeCode(ctx, code): with a cancelled context no request is sent;
\* otherwise the token endpoint issues a token or refuses. On failure Login
\* returns at once.
LoginExchange ==
    /\ login.pc = "exchange"
    /\ IF login.ctxDone
          THEN /\ login' = [login EXCEPT !.pc = "done", !.err = "failed to exchange code"]
               /\ UNCHANGED remote
          ELSE /\ Len(remote) < MaxRequests
               /\ remote' = Append(remote, [grant |-> "authorization_code", old |-> Nil])
               /\ \/ login' = [login EXCEPT !.pc = "save",
                                            !.token = Issued(Len(remote'), "rt", now)]
                  \/ login' = [login EXCEPT !.pc = "done",
                                            !.err = "failed to exchange code"]
    /\ UNCHANGED <<clientVars, cacheVars, shown, deleted, tokenFile, auths, chans, handlers, server>>

\* a.SaveToken(token): written, and then the server is shut down; or not
\* written (the file as it was, or opened and left empty), and Login returns
\* the error at once.
LoginSave ==
    /\ login.pc = "save"
    /\ \/ /\ tokenFile' = login.token
          /\ login' = [login EXCEPT !.pc = "shutdown", !.saved = "ok",
                                    !.err = SaveError(TRUE)]
          /\ server' = Shutdown
          /\ deleted' = FALSE
       \/ /\ tokenFile' \in {tokenFile, EmptyFile}
          /\ login' = [login EXCEPT !.pc = "done", !.saved = "failed",
                                    !.err = SaveError(FALSE)]
          /\ UNCHANGED <<server, deleted>>
    /\ UNCHANGED <<clientVars, cacheVars, shown, auths, remote, chans, handlers>>

\* server.Shutdown(ctx) returns, and Login with it: no handler is still
\* running, or ctx is done.
LoginReturn ==
    /\ login.pc = "shutdown"
    /\ login.ctxDone \/ \A i \in DOMAIN handlers : handlers[i].status # 0
    /\ login' = [login EXCEPT !.pc = "done"]
    /\ UNCHANGED <<clientVars, cacheVars, shown, deleted, tokenFile, auths, remote, chans, handlers, server>>

\* The states and codes callbacks carry: the state the Login that registered
\* the handler issued, and a foreign one.
CallbackStates == {0, login.closure}

CallbackCodes == {"", "code"}

NextLogin ==
    \/ LoginStart
    \/ Listen
    \/ \E st \in CallbackStates, code \in CallbackCodes : Callback(st, code)
    \/ \E i \in DOMAIN handlers : HandlerResume(i)
    \/ LoginSelectCode
    \/ LoginSelectErr
    \/ LoginSelectTimeout
    \/ LoginWaitTick
    \/ LoginCancel
    \/ LoginExchange
    \/ LoginSave
    \/ LoginReturn

SpecLogin == InitCache /\ [][NextLogin]_vars

\* ------------------------------------------------------------------ errors
\* The package errors: an Error is a record of class "Error"; every other
\* error value (a googleapi error, a fmt.Errorf wrapper, ctx.Err()) has
\* another class.
ErrorTypes ==
    {"ErrAuth", "ErrAuthExpired", "ErrAuthRevoked", "ErrAuthOffline",
     "ErrAPI", "ErrAPIRateLimit", "ErrAPINotFound", "ErrAPIForbidden",
     "ErrAPIServerError", "ErrAPINetwork",
     "ErrCache", "ErrCacheRead", "ErrCacheWrite", "ErrCacheExpired",
     "ErrValidation", "ErrInvalidInput",
     "ErrSystem", "ErrIO", "ErrConfig"}

\* New(errType, message)
New(errType, message) ==
    [class |-> "Error", Type |-> errType, Message |-> message, Original |-> NilErr,
     UserSuggestion |-> "", Recoverable |-> TRUE]

\* Wrap(err, errType, message): nil for a nil err.
Wrap(err, errType, message) ==
    IF err = NilErr THEN NilErr ELSE [New(errType, message) EXCEPT !.Original = err]

\* e.WithSuggestion(suggestion)
WithSuggestion(e, suggestion) == [e EXCEPT !.UserSuggestion = suggestion]

\* e, ok := err.(*Error): the assertion the Is...Error functions make.
IsError(err) == err.class = "Error"

\* e.UserMessage()
UserMessage(e) ==
    CASE e.Type \in {"ErrAuth", "ErrAuthExpired", "ErrAuthRevoked"} ->
             "Authentication required. Please log in again."
      [] e.Type = "ErrAuthOffline" ->
             "You appear to be offline. Some features may not be available."
      [] e.Type = "ErrAPIRateLimit" ->
             "Too many requests. Please wait a moment and try again."
      [] e.Type = "ErrAPINotFound" -> "The requested item was not found."
      [] e.Type = "ErrAPIForbidden" ->
             "You don't have permission to access this resource."
      [] e.Type = "ErrAPIServerError" ->
             "A server error occurred. Please try again later."
      [] e.Type = "ErrAPINetwork" -> "Network error. Please check your connection."
      [] e.Type \in {"ErrCacheRead", "ErrCacheWrite"} ->
             "There was a problem accessing cached data."
      [] e.Type = "ErrCacheExpired" -> "Cached data has expired. Refreshing..."
      [] e.Type \in {"ErrValidation", "ErrInvalidInput"} ->
             "Invalid input. Please check your entry."
      [] e.Type = "ErrIO" -> "A file system error occurred."
      [] e.Type = "ErrConfig" -> "Configuration error. Please check your settings."
      [] OTHER -> e.Message

\* e.GetSuggestion()
GetSuggestion(e) ==
    IF e.UserSuggestion # "" THEN e.UserSuggestion
    ELSE CASE e.Type \in {"ErrAuthExpired", "ErrAuthRevoked"} ->
                  "Run 'google-classroom auth login' to re-authenticate."
           [] e.Type = "ErrAPIRateLimit" -> "Wait a few seconds before retrying."
           [] e.Type = "ErrAPINetwork" -> "Check your internet connection."
           [] e.Type = "ErrCacheExpired" -> "Press 'r' to refresh the data."
           [] OTHER -> "Press 'r' to retry or 'q' to quit."

\* IsAuthError(err)
IsAuthError(err) ==
    /\ IsError(err)
    /\ err.Type \in {"ErrAuth", "ErrAuthExpired", "ErrAuthRevoked"}

\* The errors callers build: of every type, new or wrapping a network error,
\* with and without a suggestion of their own.
Messages == {"m1", "m2"}

Errors ==
    LET made == {New(t, m) : t \in ErrorTypes, m \in Messages}
                   \cup {Wrap(ENet, t, m) : t \in ErrorTypes, m \in Messages}
    IN  made \cup {WithSuggestion(e, "Ask your teacher.") : e \in made}

\* An error is presented: its message, its suggestion, and whether it is an
\* authentication error.
Present(e) ==
    /\ shown' = [err |-> e, message |-> UserMessage(e), suggestion |-> GetSuggestion(e),
                 auth |-> IsAuthError(e)]
    /\ UNCHANGED <<clientVars, cacheVars, authVars>>

NextErrors == \E e \in Errors : Present(e)

SpecErrors == Init /\ [][NextErrors]_vars

\* ------------------------------------------------------------ the claims
RECURSIVE Pow2(_)
Pow2(n) == IF n <= 0 THEN 1 ELSE 2 * Pow2(n - 1)

\* executeWithRetry has returned (the operation may have returned too).
Returned == pc \in {"ret", "done"} /\ ret.set

AllRateLimited ==
    /\ calls # <<>>
    /\ \A i \in 1..Len(calls) : calls[i].err.class = "RateLimited"

\* C1: with max_attempts = 3 and every attempt answered by a rate-limit error,
\* fn is never invoked more than 3 times, and executeWithRetry returns no
\* response and, unless it saw the context cancelled, returns after exactly 3
\* attempts the "after 3 attempts" failure wrapping the last rate-limit error.
C1_RetryBudget ==
    (cfg.MaxRetries = 3 /\ AllRateLimited) =>
        /\ Invoked <= cfg.MaxRetries
        /\ Returned =>
             /\ ret.resp = NilResp
             /\ \/ ctxDone /\ ret.err = CtxErr
                \/ /\ Len(calls) = cfg.MaxRetries
                   /\ ret.err = Errorf("after 3 attempts", calls[Len(calls)].err)
                   /\ ret.err.cause.class = "RateLimited"

C1_Witness ==
    /\ cfg.MaxRetries = 3
    /\ AllRateLimited
    /\ Returned
    /\ ~ctxDone
    /\ Len(calls) = 3
    /\ ret.err.msg = "after 3 attempts"

\* C2: an attempt that succeeds is the last one: the attempts before it all
\* failed, executeWithRetry returns its response with a nil error, and fn was
\* invoked exactly as many times as that attempt's number.
C2_EarlyStop ==
    \A k \in 1..Len(calls) :
        calls[k].err = NilErr =>
            /\ k = Len(calls)
            /\ Invoked = k
            /\ \A i \in 1..(k - 1) : calls[i].err # NilErr
            /\ Returned
            /\ ret.resp = calls[k].resp
            /\ ret.err = NilErr

C2_Witness ==
    /\ Returned
    /\ Len(calls) = 3
    /\ calls[1].err = E429
    /\ calls[2].err = ENet
    /\ calls[3].err = NilErr
    /\ ret.err = NilErr

\* C3: a request that is always rate-limited is attempted exactly
\* cfg.MaxRetries times and its first delay is cfg.RateLimitBackoff.
C3_ConfiguredLimits ==
    (AllRateLimited /\ Returned /\ ~ctxDone) =>
        /\ Len(calls) = cfg.MaxRetries
        /\ sleeps[1] = cfg.RateLimitBackoff

\* C4: an attempt that fails with a forbidden, not-found or unauthorized
\* error is the last attempt: executeWithRetry returns that error at once,
\* without sleeping.
C4_NonRetryable ==
    \A k \in 1..Len(calls) :
        calls[k].err.class \in {"Forbidden", "NotFound", "Unauthorized"} =>
            /\ k = Len(calls)
            /\ Returned
            /\ ret.err = calls[k].err

\* C5: once the context is cancelled, no step starts an attempt, starts a
\* sleep or stays asleep.
C5_Cancellation ==
    [][ctxDone => /\ pc' # "sleep"
                  /\ ~(pc # "call" /\ pc' = "call")]_vars

\* C6: a call whose context was cancelled during a backoff sleep returns
\* ctx.Err() and no response.
C6_CancelledOutcome ==
    (Returned /\ cancelledAt = "sleep") =>
        /\ ret.err = CtxErr
        /\ ret.resp = NilResp

\* C7: the delay slept after the k-th rate-limit failure of a request is the
\* base delay times 2^(k-1), and every rate-limit failure is followed by one.
C7_BackoffSchedule ==
    /\ \A k \in 1..Len(sleeps) : sleeps[k] = time_Second * Pow2(k - 1)
    /\ AllRateLimited => Len(sleeps) = Len(calls)
    /\ pc = "sleep" => sleepLeft <= sleeps[Len(sleeps)]

C7_Witness ==
    /\ AllRateLimited
    /\ Len(sleeps) = 3
    /\ sleeps[3] = 4
    /\ pc = "sleep"

\* C8: a failure that is neither a rate limit nor a 401/403/404 is followed
\* by the delay of the schedule, and the attempt budget is the same.
C8_TransportErrors ==
    /\ Invoked <= MaxAttempts
    /\ \A k \in 1..Len(calls) :
         (calls[k].err # NilErr /\ ~isRateLimitError(calls[k].err)
                                /\ ~isAPIError(calls[k].err)) =>
             /\ Len(sleeps) >= k
             /\ sleeps[k] = time_Second * Pow2(k - 1)

RECURSIVE Concat(_)
\* The records of the pages of a log, in page order.
Concat(pages) ==
    IF pages = <<>> THEN <<>>
    ELSE Concat(SubSeq(pages, 1, Len(pages) - 1)) \o pages[Len(pages)].Items

\* The token the remote handed out last ("" before the first page).
LastToken == IF served = <<>> THEN NoToken ELSE served[Len(served)].NextPageToken

\* C9: the first page request carries no token, every later request carries
\* the token of the page before it, no request follows a page without a token,
\* and a List call that succeeds returns the converted records of all pages in
\* page order.
C9_Pagination ==
    /\ served # <<>> => served[1].token = NoToken
    /\ \A i \in 2..Len(served) :
         /\ served[i - 1].NextPageToken # NoToken
         /\ served[i].token = served[i - 1].NextPageToken
    /\ (op \in ListOps /\ pc \in {"loop", "call", "sleep"}) => reqToken = LastToken
    /\ (served # <<>> /\ LastToken = NoToken) => pc \in {"ret", "done"}
    /\ (op \in ListOps /\ pc = "done" /\ result.err = NilErr) =>
         /\ LastToken = NoToken
         /\ Len(result.val) = Len(Concat(served))
         /\ \A i \in 1..Len(result.val) :
              result.val[i] = convert(op, Concat(served)[i])

C9_Witness ==
    /\ op \in ListOps
    /\ pc = "done"
    /\ result.err = NilErr
    /\ Len(served) = 3
    /\ Len(served[1].Items) = 2
    /\ Len(served[2].Items) = 2
    /\ Len(served[3].Items) = 1
    /\ Len(result.val) = 5
    /\ op = "ListCourseWork"
    /\ \A i \in 1..5 : result.val[i].ID = i
    /\ result.val[1].DueDate = "2026-01-11"
    /\ result.val[2].DueDate = ""
    /\ result.val[5].MaxPoints = 102

\* The key a request of each operation is to be cached under (course 1).
RequestKey(o) ==
    CASE o = "ListCourses" -> <<"courses">>
      [] o = "GetCourse" -> <<"courses", "/", "1">>
      [] OTHER -> <<"courses", "/", "1", "/", o>>

\* Cache.Get(key) would hit: the file exists and its entry has not expired.
Hit(key) ==
    /\ getPath(key) \in DOMAIN files
    /\ ~Expired(files[getPath(key)], now)

\* C10: a call that starts while the cache holds a valid entry under the
\* request's key returns at once with the cached records and sends nothing to
\* the remote; a call that succeeds after a miss leaves its records in the
\* cache under that key.
C10_CacheFirst ==
    [][/\ (pc = "idle" /\ pc' # "idle" /\ Hit(RequestKey(op'))) =>
             /\ pc' = "done"
             /\ result'.err = NilErr
             /\ Marshal(result'.val) = Compact(files[getPath(RequestKey(op'))].Data)
       /\ (pc = "ret" /\ pc' = "done" /\ result'.err = NilErr) =>
             /\ getPath(RequestKey(op)) \in DOMAIN files'
             /\ Compact(files'[getPath(RequestKey(op))].Data) = Marshal(result'.val)]_vars

\* ----------------------------------------------------- the cache's claims
\* C11: a Get of a key whose file holds an entry stored with a positive ttl
\* at t0 hits when the time is before t0 + ttl and misses when the time is
\* t0 + ttl or later.
C11_TTL ==
    [][\A k \in Keys :
          (/\ call'.op = "Get" /\ call'.key = k
           /\ CacheGet(k)
           /\ getPath(k) \in DOMAIN files
           /\ files[getPath(k)].ExpiresAt > files[getPath(k)].CachedAt)
          => (got'.hit <=> now < files[getPath(k)].ExpiresAt)]_vars

\* C12: a Get that finds an expired entry removes its file: the census taken
\* afterwards has one entry less in total and no valid entry less, and the
\* next Get of the key finds no file (a miss with nothing left to remove).
C12_LazyEviction ==
    [][\A k \in Keys :
          LET p == getPath(k)
          IN  (/\ call'.op = "Get" /\ call'.key = k
               /\ CacheGet(k)
               /\ p \in DOMAIN files /\ Expired(files[p], now)) =>
                 /\ ~got'.hit /\ got'.err = ""
                 /\ p \notin DOMAIN files'
                 /\ Census(files', now').TotalEntries = Census(files, now).TotalEntries - 1
                 /\ Census(files', now').ValidEntries = Census(files, now).ValidEntries
                 /\ Census(files', now').ExpiredEntries =
                        Census(files, now).ExpiredEntries - 1
                 /\ GetResult(p \in DOMAIN files', ReadFile(files', p), now') = NoGot
                 /\ ~Evicts(p \in DOMAIN files', ReadFile(files', p), now')]_vars

\* An expired entry was evicted by the last Get while the file of another
\* key stays in the directory.
C12_Witness ==
    /\ call.op = "Get" /\ call.evicted
    /\ getPath(call.key) \notin DOMAIN files
    /\ DOMAIN files # {}
    /\ got = NoGot

\* C13: after Set(k, v, ttl) with ttl > 0, a Get of k at any time before
\* now + ttl returns an entry whose payload is the serialization of v, cached
\* now and expiring at CachedAt + ttl; the file of k holds this entry alone,
\* whatever it held before; and a Get that finds an unexpired entry returns
\* that entry.
C13_RoundTrip ==
    [][/\ \A k \in Keys, v \in Payloads, ttl \in 1..MaxTTL :
             (call'.op = "Set" /\ call'.key = k /\ CacheSet(k, v, ttl)) =>
                /\ DOMAIN files' = DOMAIN files \cup {getPath(k)}
                /\ \A t \in now..(now + ttl - 1) :
                      LET r == GetResult(getPath(k) \in DOMAIN files',
                                         ReadFile(files', getPath(k)), t)
                      IN  /\ r.hit /\ r.err = "" /\ r.entry # Nil
                          /\ Compact(r.entry.Data) = Marshal(v)
                          /\ r.entry.CachedAt = now
                          /\ r.entry.ExpiresAt = r.entry.CachedAt + ttl
       /\ \A k \in Keys :
             (/\ call'.op = "Get" /\ call'.key = k
              /\ CacheGet(k)
              /\ getPath(k) \in DOMAIN files
              /\ now < files[getPath(k)].ExpiresAt)
             => got' = [entry |-> files[getPath(k)], hit |-> TRUE, err |-> ""]]_vars

\* A Get returned, before its expiry, the empty list stored at time 1 with
\* ttl 1 (the clock starts at 0, the file had time to hold another entry).
C13_Witness ==
    /\ call.op = "Get" /\ call.at = 1
    /\ got.hit
    /\ Compact(got.entry.Data) = Marshal(<<>>)
    /\ got.entry.CachedAt = 1
    /\ got.entry.ExpiresAt = 2

\* C15: Delete(k) leaves no file for k, so that the next Get of k is a miss;
\* every other file is left as it was; and when k had no file the directory
\* is unchanged.
C15_Delete ==
    [][\A k \in Keys :
          LET p == getPath(k)
          IN  (call'.op = "Delete" /\ call'.key = k /\ CacheDelete(k)) =>
                 /\ DOMAIN files' = DOMAIN files \ {p}
                 /\ \A q \in DOMAIN files' : files'[q] = files[q]
                 /\ GetResult(p \in DOMAIN files', ReadFile(files', p), now') = NoGot
                 /\ (p \notin DOMAIN files => files' = files)]_vars

\* Delete removed the file of its key and another file remains.
C15_Witness ==
    /\ call.op = "Delete" /\ call.existed
    /\ getPath(call.key) \notin DOMAIN files
    /\ DOMAIN files # {}

\* C16: after Clear no file is left: a Get of any key is a miss and the
\* census counts no entry.
C16_Clear ==
    [][(call'.op = "Clear" /\ CacheClear) =>
          /\ \A k \in Keys :
                GetResult(getPath(k) \in DOMAIN files', ReadFile(files', getPath(k)), now')
                    = NoGot
          /\ Census(files', now').TotalEntries = 0]_vars

\* Clear emptied a directory of two files.
C16_Witness ==
    /\ call.op = "Clear" /\ call.count = 2
    /\ files = <<>>

\* C17: every entry a Set has written expires after the instant it was cached.
C17_EntryInvariant ==
    \A q \in DOMAIN files :
        Parses(files[q]) => files[q].ExpiresAt > files[q].CachedAt

\* ------------------------------------------- the shared cache's claims
\* C14: GetStats returns as TotalEntries the number of files the directory
\* holds, and ValidEntries + ExpiredEntries = TotalEntries, whatever the files
\* hold.
C14_Census ==
    [][\A g \in Goroutines :
          GetStatsBy(g) =>
             /\ procs'[g].out.TotalEntries = Cardinality(DOMAIN files)
             /\ procs'[g].out.ValidEntries + procs'[g].out.ExpiredEntries
                    = procs'[g].out.TotalEntries]_vars

\* C20: a Get never returns an error and never a text other than an entry a
\* Set wrote whole: it returns a miss or a complete entry.
C20_AtomicWrites ==
    \A g \in Goroutines :
        (procs[g].pc = "idle" /\ procs[g].op = "Get") =>
            /\ procs[g].out.err = ""
            /\ procs[g].out.hit => Parses(procs[g].out.entry)

\* ------------------------------------------------- GenerateKey's claims
\* C18: two calls of GenerateKey with the same endpoint and the same
\* parameter map return the same string.
C18_Determinism ==
    \A i, j \in DOMAIN fps :
        (fps[i].endpoint = fps[j].endpoint /\ fps[i].params = fps[j].params)
            => fps[i].key = fps[j].key

\* C19: two calls of GenerateKey that return the same string were given the
\* same endpoint and the same parameter map.
C19_Injectivity ==
    \A i, j \in DOMAIN fps :
        fps[i].key = fps[j].key
            => (fps[i].endpoint = fps[j].endpoint /\ fps[i].params = fps[j].params)

\* C21: a Get never removes an entry that has not expired (an entry stored
\* after the Get read the file stays), and a Set that returns leaves in the
\* file of its key exactly the entry it wrote.
C21_NoLostWrites ==
    [][\A g \in Goroutines :
          LET p == getPath(procs[g].key)
          IN  /\ (/\ procs[g].pc = "read"
                  /\ GetFinish(g)
                  /\ p \in DOMAIN files
                  /\ Parses(files[p]) /\ ~Expired(files[p], now))
                 => (p \in DOMAIN files' /\ files'[p] = files[p])
              /\ (procs[g].pc = "write" /\ SetWrite(g) /\ procs[g].linked)
                 => files'[p] = procs[g].data]_vars

\* ------------------------------------------------ the Authenticator's claims
\* C22: two RefreshToken calls in progress at once for one expired stored
\* credential result in one refresh request at the token endpoint and in the
\* same renewed credential for both.
C22_SingleRefresh ==
    \A g1, g2 \in Goroutines :
        (/\ g1 # g2
         /\ auths[g1].op = "RefreshToken" /\ auths[g1].pc \in {"save", "write"}
         /\ auths[g2].op = "RefreshToken" /\ auths[g2].pc \in {"save", "write"}
         /\ auths[g1].token = auths[g2].token
         /\ auths[g1].new # auths[g1].token
         /\ auths[g2].new # auths[g2].token)
        => /\ Cardinality({i \in DOMAIN remote : remote[i].old = auths[g1].token}) = 1
           /\ auths[g1].new = auths[g2].new

\* C23: when RefreshToken returns the failure of the refresh, the stored
\* credential is gone or no longer counts as authenticated.
C23_FailureInvalidates ==
    [][\A g \in Goroutines :
          (/\ auths[g].pc = "refresh"
           /\ auths'[g].pc = "idle"
           /\ auths'[g].out.err = "failed to refresh token")
          => ~IsAuthenticated(tokenFile', now')]_vars

\* C24: a token the endpoint issued in a refresh is returned by RefreshToken
\* or attached to a request only when the token file holds it.
C24_PersistedBeforeUse ==
    [][\A g \in Goroutines :
          (/\ auths'[g] # auths[g]
           /\ auths'[g].pc = "idle"
           /\ auths'[g].op \in {"RefreshToken", "Request"}
           /\ auths'[g].out.err = ""
           /\ auths'[g].out.token \notin StoredTokens)
          => tokenFile' = auths'[g].out.token]_vars

\* C30: what a reader of the token file reads is a complete token, or there
\* is no file.
C30_AtomicSave ==
    \A g \in Goroutines :
        (auths[g].pc = "idle" /\ auths[g].op = "IsAuthenticated")
            => (auths[g].out.token = Nil \/ ParsesToken(auths[g].out.token))

\* The handlers that have got their send through, with their index.
Sent == {i \in DOMAIN handlers : handlers[i].status # 0}

\* C25: once a callback with a foreign state has come in during the wait and
\* the handler has reported it, no code is exchanged, no token is stored and
\* Login ends with the state-mismatch error.
C25_FailsClosed ==
    (/\ login.state = login.closure
     /\ \E i \in Sent : handlers[i].msg = "state mismatch" /\ handlers[i].during = "wait")
        => /\ \A n \in DOMAIN remote : remote[n].grant # "authorization_code"
           /\ tokenFile = Nil
           /\ login.pc = "done" => login.err = "state mismatch"

\* The handler is blocked in a send nobody will receive: the buffer is full
\* and Login has left the select.
Stuck(i) ==
    /\ handlers[i].status = 0
    /\ Len(chans[handlers[i].chan]) > 0
    /\ login.pc \notin {"idle", "wait"}

\* C26: at most one callback is answered with success, and no handler is
\* left blocked in its send.
C26_OneCallback ==
    /\ Cardinality({i \in DOMAIN handlers : handlers[i].status = 200}) <= 1
    /\ \A i \in DOMAIN handlers : ~Stuck(i)

\* C27: when Login has returned, the listener it started is shut down.
C27_Teardown ==
    login.pc = "done" => server \in {"none", "closed"}

\* C28: once the context is cancelled Login does not go on waiting for a
\* callback: no more of the timeout elapses in the select.
C28_Cancellable ==
    [][(login.pc = "wait" /\ login.ctxDone) => login'.waited = login.waited]_vars

\* C29: Login returns nil only with the token saved, and a failed save is
\* returned as an error.
C29_SuccessOnlyIfSaved ==
    login.pc = "done" =>
        /\ (login.err = "" => login.saved = "ok" /\ tokenFile = login.token)
        /\ (login.saved = "failed" => login.err = "failed to save token")

\* The exchange succeeded, the save failed, Login has returned the error.
C29_Witness ==
    /\ login.pc = "done"
    /\ login.token # Nil
    /\ login.saved = "failed"
    /\ login.err = "failed to save token"
    /\ tokenFile # login.token

C32_Deleted ==
    [][deleted =>
         \A g \in Goroutines :
            (/\ auths[g].pc = "idle"
             /\ auths'[g].pc = "idle"
             /\ auths'[g] # auths[g]
             /\ auths'[g].op \in {"IsAuthenticated", "TokenSource"})
                => auths'[g].out.err = "no stored token found"]_vars

\* C33: RefreshToken on a stored token without refresh token returns the
\* error at once, with no request sent and the file as it was; on one with a
\* refresh token it goes on to the token source, expired or not.
C33_Terminal ==
    [][(/\ auths["g1"].pc = "idle"
        /\ auths'["g1"].op = "RefreshToken"
        /\ auths'["g1"] # auths["g1"]
        /\ ParsesToken(tokenFile))
          => IF tokenFile.RefreshToken = ""
             THEN /\ auths'["g1"].pc = "idle"
                  /\ auths'["g1"].out.err = "no refresh token available"
                  /\ remote' = remote
                  /\ tokenFile' = tokenFile
             ELSE /\ auths'["g1"].pc = "refresh"
                  /\ auths'["g1"].token = tokenFile]_vars

\* RefreshToken has refused a stored token that has no refresh token.
C33_Witness ==
    /\ auths["g1"].pc = "idle" /\ auths["g1"].op = "RefreshToken"
    /\ auths["g1"].out.err = "no refresh token available"
    /\ ParsesToken(tokenFile) /\ tokenFile.RefreshToken = ""
    /\ \A n \in DOMAIN remote : remote[n].old.RefreshToken # ""

\* A step of the TurnIn call itself.
TurnInStep == op' = "TurnIn" /\ clientVars' # clientVars

\* C34 as stated: no step of a TurnIn call touches the cache, and every
\* TurnIn call has sent a request when it returns.
C34_AlwaysLive ==
    [][TurnInStep =>
         /\ UNCHANGED <<files, got, call, stats>>
         /\ pc' = "done" => Len(calls') >= 1]_vars

\* C34: no step of a TurnIn call touches the cache, and every TurnIn call
\* has sent a request when it returns, unless its context was cancelled
\* before the first attempt and it returns the context's error.
C34_LiveUnlessCancelled ==
    [][TurnInStep =>
         /\ UNCHANGED <<files, got, call, stats>>
         /\ pc' = "done" =>
               \/ Len(calls') >= 1
               \/ ctxDone' /\ result'.err = Errorf(FailureMessage("TurnIn"), CtxErr)]_vars

\* TurnIn has returned nil while the cache holds an entry.
C34_Witness ==
    /\ op = "TurnIn" /\ pc = "done"
    /\ result.err = NilErr
    /\ Len(calls) >= 1
    /\ files # <<>>

\* C35: every failure a client operation returns is an Error of the
\* package errors, which callers tell apart by its Type.
C35_Typed ==
    (pc = "done" /\ result.set /\ result.err # NilErr) => IsError(result.err)

\* C36: an error without a suggestion of its own gets the next step of its
\* class: the authentication errors (those IsAuthError accepts and
\* UserMessage asks to log in again for) the login command, a rate limit the
\* wait, an expired cache entry the refresh.
C36_NextStep ==
    (shown # Nil /\ shown.err.UserSuggestion = "") =>
        /\ shown.auth <=> shown.err.Type \in {"ErrAuth", "ErrAuthExpired", "ErrAuthRevoked"}
        /\ shown.auth <=> shown.message = "Authentication required. Please log in again."
        /\ shown.auth =>
              shown.suggestion = "Run 'google-classroom auth login' to re-authenticate."
        /\ shown.err.Type = "ErrAPIRateLimit" =>
              shown.suggestion = "Wait a few seconds before retrying."
        /\ shown.err.Type = "ErrCacheExpired" =>
              shown.suggestion = "Press 'r' to refresh the data."

\* C37: the token file changes during Login only in the save that follows
\* the exchange of a code, the code of a callback that carried this
\* attempt's state and was answered with success.
C37_OnePath ==
    [][tokenFile' # tokenFile =>
         /\ login.pc = "save"
         /\ login.token # Nil
         /\ login.code # ""
         /\ remote # <<>> /\ remote[Len(remote)].grant = "authorization_code"
         /\ \E i \in DOMAIN handlers :
               /\ handlers[i].state = login.state
               /\ handlers[i].during = "wait"
               /\ handlers[i].code = login.code
               /\ handlers[i].status = 200]_vars

\* Login has saved the token it exchanged the code for.
C37_Witness ==
    /\ login.saved = "ok"
    /\ tokenFile = login.token
    /\ tokenFile # Nil
    /\ \E i \in DOMAIN handlers : handlers[i].during = "wait" /\ handlers[i].status = 400

\* C38: a Login call after an earlier one has returned does not panic.
C38_Repeatable == login.pc # "panic"

\* C39: a List call that returns an error returns no records with it, also
\* when pages were fetched before the request that failed.
C39_AllOrNothing ==
    (pc = "done" /\ op \in ListOps /\ result.err # NilErr) => result.val = <<>>

\* A List call has failed after a page with records had been fetched.
C39_Witness ==
    /\ pc = "done" /\ op \in ListOps
    /\ result.err # NilErr
    /\ result.val = <<>>
    /\ acc # <<>>
    /\ Len(served) >= 1

\* C40: a Set, a Delete or a Get of one key leaves the file of every other
\* key as it was, so that a Get of the other key finds what it found before.
C40_Confined ==
    [][\A k2 \in Keys :
          (call'.op \in {"Set", "Delete", "Get"} /\ call'.key # k2)
             => /\ (getPath(k2) \in DOMAIN files') = (getPath(k2) \in DOMAIN files)
                /\ getPath(k2) \in DOMAIN files => files'[getPath(k2)] = files[getPath(k2)]]_vars

====
